---- MODULE Spec2Model ----
(***************************************************************************)
(* nix-search: one CLI invocation of main (cli.py), the request built by   *)
(* NixOSSearchClient (client.py) and the rendering done by print_results   *)
(* (formatter.py).                                                         *)
(*                                                                         *)
(* Python values are modelled as follows.  str is a TLA+ string, with \o   *)
(* for concatenation.  An Optional value is None or Some(v).  A dict with  *)
(* literal keys is a record with those keys; a list is a sequence.         *)
(***************************************************************************)
EXTENDS Integers, Sequences, FiniteSets, TLC

VARIABLES pc, args, isatty, backend, client, sent, data, printCalls,
          stdout, stderr, pager, exitCode

vars == <<pc, args, isatty, backend, client, sent, data, printCalls,
          stdout, stderr, pager, exitCode>>

\* ------------------------------------------------------------------------
\* Python values
\* ------------------------------------------------------------------------
None == [some |-> FALSE]

Some(v) == [some |-> TRUE, v |-> v]

\* bool(s) of an Optional[str]: None and "" are both falsy
Truthy(o) == o.some /\ o.v # ""

\* ------------------------------------------------------------------------
\* client.py constants
\* ------------------------------------------------------------------------
SCHEMA_VERSION == 44

REQUEST_TIMEOUT == 30

MAX_RESULTS == 10000

DEFAULT_USERNAME == "aWVSALXpZv"

DEFAULT_PASSWORD == "X8gPHnzL52wFEekuxsfQ9cSh"

\* formatter.py
PAGER_THRESHOLD == 10

\* ------------------------------------------------------------------------
\* NixOSSearchClient.__init__
\* A base URL is a sequence of chunks; a chunk is either the one character
\* "/" or a piece of text that does not end in "/".
\* ------------------------------------------------------------------------
RECURSIVE rstrip(_)
rstrip(chunks) ==
    IF chunks # <<>> /\ chunks[Len(chunks)] = "/"
    THEN rstrip(SubSeq(chunks, 1, Len(chunks) - 1))
    ELSE chunks

RECURSIVE Join(_)
Join(chunks) ==
    IF chunks = <<>> THEN "" ELSE Head(chunks) \o Join(Tail(chunks))

NixOSSearchClient(base_url) ==
    [base_url |-> Join(rstrip(base_url)),
     username |-> DEFAULT_USERNAME,
     password |-> DEFAULT_PASSWORD]

\* ------------------------------------------------------------------------
\* NixOSSearchClient._build_query
\* ------------------------------------------------------------------------
PACKAGE_FIELDS ==
    << "package_attr_name^9",
       "package_attr_name.*^5.3999999999999995",
       "package_programs^9",
       "package_programs.*^5.3999999999999995",
       "package_pname^6",
       "package_pname.*^3.5999999999999996",
       "package_description^1.3",
       "package_description.*^0.78",
       "package_longDescription^1",
       "package_longDescription.*^0.6",
       "flake_name^0.5" >>

OPTION_FIELDS == << "option_name^2", "option_description" >>

MultiMatchFields(search_type) ==
    IF search_type = "packages" THEN PACKAGE_FIELDS ELSE OPTION_FIELDS

DisMaxClause(query, search_type) ==
    [dis_max |->
      [queries |->
        << [multi_match |->
             [query  |-> query,
              type   |-> "cross_fields",
              fields |-> MultiMatchFields(search_type)]] >>]]

\* Wrap matching a prefix only
Wrap_Prefix(value) == value \o "*"

\* f"*{value}*"
Wrap(value) == "*" \o value \o "*"

NameClause(name) == [wildcard |-> [package_attr_name |-> Wrap(name)]]

ProgramClause(program) == [wildcard |-> [package_programs |-> Wrap(program)]]

VersionClause(version) == [wildcard |-> [package_pversion |-> Wrap(version)]]

PlatformClause(platform) == [term |-> [package_platforms |-> platform]]

MustClauses(query, name, program, version, platform, search_type) ==
    (IF query # "" THEN << DisMaxClause(query, search_type) >> ELSE <<>>)
    \o (IF Truthy(name) THEN << NameClause(name.v) >> ELSE <<>>)
    \o (IF Truthy(program) THEN << ProgramClause(program.v) >> ELSE <<>>)
    \o (IF Truthy(version) THEN << VersionClause(version.v) >> ELSE <<>>)
    \o (IF Truthy(platform) THEN << PlatformClause(platform.v) >> ELSE <<>>)

\* {"match_all": {}}
MatchAll == [match_all |-> <<>>]

build_query(query, name, program, version, platform, search_type) ==
    LET must_clauses ==
          MustClauses(query, name, program, version, platform, search_type)
    IN  [bool |-> [must |-> IF must_clauses # <<>> THEN must_clauses
                            ELSE << MatchAll >>]]

\* ------------------------------------------------------------------------
\* NixOSSearchClient.search: index, endpoint, body
\* ------------------------------------------------------------------------
\* IndexName with the flakes index depending on the channel
IndexName_FlakesPerChannel(search_type, channel) ==
    IF search_type = "flakes"
    THEN "latest-" \o ToString(SCHEMA_VERSION) \o "-nixos-" \o channel
            \o "-flakes"
    ELSE IF search_type = "options"
    THEN "latest-" \o ToString(SCHEMA_VERSION) \o "-nixos-" \o channel
            \o "-options"
    ELSE "latest-" \o ToString(SCHEMA_VERSION) \o "-nixos-" \o channel

IndexName(search_type, channel) ==
    IF search_type = "flakes"
    THEN "latest-" \o ToString(SCHEMA_VERSION) \o "-nixos-flakes"
    ELSE IF search_type = "options"
    THEN IF channel = "unstable"
         THEN "latest-" \o ToString(SCHEMA_VERSION) \o "-nixos-unstable-options"
         ELSE "latest-" \o ToString(SCHEMA_VERSION) \o "-nixos-" \o channel
                 \o "-options"
    ELSE IF channel = "unstable"
         THEN "latest-" \o ToString(SCHEMA_VERSION) \o "-nixos-unstable"
         ELSE "latest-" \o ToString(SCHEMA_VERSION) \o "-nixos-" \o channel

Endpoint(self, search_type, channel) ==
    self.base_url \o "/backend/" \o IndexName(search_type, channel)
        \o "/_search"

SortSpec(search_type) ==
    IF search_type = "packages"
    THEN << [_score |-> "desc"], [package_attr_name |-> "desc"] >>
    ELSE << [_score |-> "desc"] >>

EsQuery(a) ==
    [query |-> build_query(a.query, a.name, a.program, a.version,
                           a.platform, a.search_type),
     size  |-> a.size,
     from  |-> a.from_,
     sort  |-> SortSpec(a.search_type)]

PostRequest(self, a) ==
    [method   |-> "POST",
     endpoint |-> Endpoint(self, a.search_type, a.channel),
     json     |-> EsQuery(a),
     auth     |-> [username |-> self.username, password |-> self.password],
     timeout  |-> REQUEST_TIMEOUT]

\* ------------------------------------------------------------------------
\* formatter.py: what is written to a console, as a sequence of prints
\* ------------------------------------------------------------------------
Header(total_value, showing) ==
    [kind |-> "header", total |-> total_value, showing |-> showing]

format_package_result_table(source, index, details) ==
    [kind |-> "table", formatter |-> "package", index |-> index,
     source |-> source, details |-> details]

format_option_result_table(source, index, details) ==
    [kind |-> "table", formatter |-> "option", index |-> index,
     source |-> source, details |-> details]

Blank == [kind |-> "blank"]

\* the body of the loop of _render_results for the i-th hit
RenderHit(hits, i, search_type, details, compact) ==
    LET source == hits[i]._source
        spacing == IF ~compact /\ i < Len(hits) THEN << Blank >> ELSE <<>>
    IN  IF search_type = "packages" \/ search_type = "flakes"
        THEN << format_package_result_table(source, i, details) >> \o spacing
        ELSE IF search_type = "options"
        THEN << format_option_result_table(source, i, details) >> \o spacing
        ELSE <<>>

RECURSIVE RenderFrom(_, _, _, _, _)
RenderFrom(hits, i, search_type, details, compact) ==
    IF i > Len(hits) THEN <<>>
    ELSE RenderHit(hits, i, search_type, details, compact)
         \o RenderFrom(hits, i + 1, search_type, details, compact)

render_results(hits, search_type, total_value, details, compact) ==
    << Header(total_value, Len(hits)) >>
    \o RenderFrom(hits, 1, search_type, details, compact)

\* reversed leaving the order as it is
reversed_Identity(hits) == hits

\* list(reversed(hits))
reversed(hits) == [i \in 1..Len(hits) |-> hits[Len(hits) + 1 - i]]

\* data.get("hits", {}).get("hits", [])
GetHits(d) == IF d.hits.some THEN d.hits.v.hits ELSE <<>>

\* total.get("value", 0) if isinstance(total, dict) else total
TotalValue(d) ==
    IF ~d.hits.some \/ ~d.hits.v.total.some THEN 0
    ELSE IF d.hits.v.total.v.type = "dict" THEN d.hits.v.total.v.value
    ELSE d.hits.v.total.v.value

DisplayHits(d, reverse) == IF reverse THEN reversed(GetHits(d)) ELSE GetHits(d)

\* ShouldUsePager with >= in place of >
ShouldUsePager_AtThreshold(use_pager, hits) ==
    IF use_pager.some THEN use_pager.v ELSE Len(hits) >= PAGER_THRESHOLD

\* use_pager if use_pager is not None else len(hits) > PAGER_THRESHOLD
ShouldUsePager(use_pager, hits) ==
    IF use_pager.some THEN use_pager.v ELSE Len(hits) > PAGER_THRESHOLD

\* json.dumps(data, indent=2)
JsonDumps(d) == [kind |-> "json", indent |-> 2, doc |-> d]

\* JsonUsesPager paging unless the pager is forced off
JsonUsesPager_UnlessOff(use_pager) == ~use_pager.some \/ use_pager.v

\* `if use_pager:` in the JSON branch: None and False are both falsy
JsonUsesPager(use_pager) == use_pager.some /\ use_pager.v

\* ------------------------------------------------------------------------
\* cli.py: the validation at the head of main
\* ------------------------------------------------------------------------
\* Validate counting a platform filter among the search criteria
Validate_PlatformSuffices(a) ==
    IF ~(a.query # "" \/ Truthy(a.name) \/ Truthy(a.program)
           \/ Truthy(a.version) \/ Truthy(a.platform))
    THEN "UsageError"
    ELSE IF a.size <= 0 THEN "BadParameter --size"
    ELSE IF a.from_ < 0 THEN "BadParameter --from"
    ELSE IF a.from_ + a.size > MAX_RESULTS THEN "BadParameter --from/--size"
    ELSE "ok"

\* Validate without the check of from + size against MAX_RESULTS
Validate_NoLimit(a) ==
    IF ~(a.query # "" \/ Truthy(a.name) \/ Truthy(a.program)
           \/ Truthy(a.version))
    THEN "UsageError"
    ELSE IF a.size <= 0 THEN "BadParameter --size"
    ELSE IF a.from_ < 0 THEN "BadParameter --from"
    ELSE "ok"

Validate(a) ==
    IF ~(a.query # "" \/ Truthy(a.name) \/ Truthy(a.program)
           \/ Truthy(a.version))
    THEN "UsageError"
    ELSE IF a.size <= 0 THEN "BadParameter --size"
    ELSE IF a.from_ < 0 THEN "BadParameter --from"
    ELSE IF a.from_ + a.size > MAX_RESULTS THEN "BadParameter --from/--size"
    ELSE "ok"

\* ------------------------------------------------------------------------
\* Inputs
\* ------------------------------------------------------------------------
\* largest number of hits in a response
MaxHits == 12

DefaultArgs ==
    [query |-> "", name |-> None, program |-> None, version |-> None,
     platform |-> None, channel |-> "unstable", search_type |-> "packages",
     size |-> 20, from_ |-> 0, details |-> FALSE, compact |-> FALSE,
     reverse |-> FALSE, json_output |-> FALSE, pager |-> None,
     base_url |-> << "https://search.nixos.org" >>]

Queries == {"", "python"}

Names == {None, Some(""), Some("emacsPackages.*")}

Programs == {None, Some("gcc")}

Versions == {None, Some("1.21")}

Platforms == {None, Some("x86_64-linux")}

Channels == {"unstable", "24.05"}

SearchTypes == {"packages", "options", "flakes"}

Sizes == {0, 1, 20, MAX_RESULTS, MAX_RESULTS + 1}

Offsets == {-1, 0, 1, MAX_RESULTS - 20, MAX_RESULTS - 19}

BaseUrls == { << "https://search.nixos.org" >>,
              << "http://localhost:9200", "/", "/" >> }

PagerModes == {None, Some(TRUE), Some(FALSE)}

\* the i-th hit of a response carries the source record i
Hit(i) == [_source |-> i]

Response(n, total) ==
    [type |-> "dict",
     hits |-> Some([total |-> total, hits |-> [i \in 1..n |-> Hit(i)]])]

\* a JSON object without "hits", and a JSON document that is not an object
NoHitsKey == [type |-> "dict", hits |-> None]

JsonList == [type |-> "list"]

Totals(n) == { Some([type |-> "dict", value |-> n + 5]),
               Some([type |-> "int", value |-> n]),
               None }

AllBackends ==
    UNION { { Response(n, t) : t \in Totals(n) } : n \in 0..MaxHits }
    \cup {NoHitsKey, JsonList}

FewBackends ==
    { Response(0, Some([type |-> "dict", value |-> 0])),
      Response(3, Some([type |-> "dict", value |-> 8])),
      JsonList }

\* usage validation and pagination arguments vary
ArgsMain ==
    { [DefaultArgs EXCEPT !.query = q, !.name = n, !.program = p,
                          !.version = v, !.size = sz, !.from_ = f,
                          !.json_output = j] :
        q \in Queries, n \in Names, p \in Programs, v \in Versions,
        sz \in Sizes, f \in Offsets, j \in BOOLEAN }

\* everything the request is built from varies
ArgsQuery ==
    { [DefaultArgs EXCEPT !.query = q, !.name = n, !.program = p,
                          !.version = v, !.platform = pl, !.channel = c,
                          !.search_type = t, !.base_url = b,
                          !.json_output = j] :
        q \in Queries, n \in Names, p \in Programs, v \in Versions,
        pl \in Platforms, c \in Channels, t \in SearchTypes,
        b \in BaseUrls, j \in BOOLEAN }

\* everything the rendering depends on varies
ArgsRender ==
    { [DefaultArgs EXCEPT !.query = q, !.search_type = t, !.details = d,
                          !.compact = c, !.reverse = r, !.json_output = j,
                          !.pager = pg] :
        q \in Queries, t \in SearchTypes, d \in BOOLEAN, c \in BOOLEAN,
        r \in BOOLEAN, j \in BOOLEAN, pg \in PagerModes }

\* ------------------------------------------------------------------------
\* State
\*   pc         where the process is: "main", "post" (blocked in
\*              requests.post), "print_results", "exit"
\*   args       the parsed command line
\*   isatty     sys.stdout.isatty()
\*   backend    the JSON document the backend answers with when it answers
\*   client     the NixOSSearchClient, once constructed
\*   sent       the requests sent so far
\*   data       what client.search returned
\*   printCalls number of calls of print_results
\*   stdout, stderr  what was written to the two streams
\*   pager      the contents handed to the pager
\*   exitCode   the exit status, -1 while the process runs
\* ------------------------------------------------------------------------
InitWith(A, B) ==
    /\ pc = "main"
    /\ args \in A
    /\ isatty \in BOOLEAN
    /\ backend \in B
    /\ client = None
    /\ sent = <<>>
    /\ data = None
    /\ printCalls = 0
    /\ stdout = <<>>
    /\ stderr = <<>>
    /\ pager = <<>>
    /\ exitCode = -1

Exit(code) == pc' = "exit" /\ exitCode' = code

\* cli.py 180-196: a validation fails; click reports the usage error
main_usage_error ==
    /\ pc = "main"
    /\ Validate(args) # "ok"
    /\ stderr' = Append(stderr, [kind |-> "usage", error |-> Validate(args)])
    /\ Exit(2)
    /\ UNCHANGED <<args, isatty, backend, client, sent, data, printCalls,
                   stdout, pager>>

\* cli.py 198-210, client.py 127-161: build the client and the request, post
main_search ==
    /\ pc = "main"
    /\ Validate(args) = "ok"
    /\ LET self == NixOSSearchClient(args.base_url)
       IN  /\ client' = Some(self)
           /\ sent' = Append(sent, PostRequest(self, args))
    /\ pc' = "post"
    /\ UNCHANGED <<args, isatty, backend, data, printCalls, stdout, stderr,
                   pager, exitCode>>

\* client.py 162-163: 2xx status and a JSON body
search_return ==
    /\ pc = "post"
    /\ data' = Some(backend)
    /\ pc' = "print_results"
    /\ UNCHANGED <<args, isatty, backend, client, sent, printCalls, stdout,
                   stderr, pager, exitCode>>

\* search_RequestException posting again after a failure (at most twice)
search_RequestException_Retry ==
    /\ pc = "post"
    /\ Len(sent) < 3
    /\ sent' = Append(sent, sent[1])
    /\ stderr' = Append(stderr, [kind |-> "Error making request",
                                 error |-> "ConnectionError"])
    /\ UNCHANGED <<pc, args, isatty, backend, client, data, printCalls,
                   stdout, pager, exitCode>>

\* client.py 164-166: connection error, timeout or non-2xx status
search_RequestException ==
    /\ pc = "post"
    /\ \E e \in {"ConnectionError", "Timeout", "HTTPError"} :
          stderr' = Append(stderr, [kind |-> "Error making request",
                                    error |-> e])
    /\ Exit(1)
    /\ UNCHANGED <<args, isatty, backend, client, sent, data, printCalls,
                   stdout, pager>>

\* search_JSONDecodeError reporting the error and exiting with status 0
search_JSONDecodeError_ExitZero ==
    /\ pc = "post"
    /\ stderr' = Append(stderr, [kind |-> "Error parsing JSON response",
                                 error |-> "JSONDecodeError"])
    /\ Exit(0)
    /\ UNCHANGED <<args, isatty, backend, client, sent, data, printCalls,
                   stdout, pager>>

\* client.py 163-169: the body is not JSON.  The exception response.json()
\* raises is a RequestException in recent versions of requests and a plain
\* JSONDecodeError in older ones, so either handler may report it.
search_JSONDecodeError ==
    /\ pc = "post"
    /\ \E m \in {"Error making request", "Error parsing JSON response"} :
          stderr' = Append(stderr, [kind |-> m, error |-> "JSONDecodeError"])
    /\ Exit(1)
    /\ UNCHANGED <<args, isatty, backend, client, sent, data, printCalls,
                   stdout, pager>>

\* formatter.py 177-183
print_results_json ==
    /\ pc = "print_results"
    /\ args.json_output
    /\ printCalls' = printCalls + 1
    /\ IF JsonUsesPager(args.pager)
       THEN /\ pager' = Append(pager, << JsonDumps(data.v) >>)
            /\ stdout' = stdout
       ELSE /\ stdout' = Append(stdout, JsonDumps(data.v))
            /\ pager' = pager
    /\ Exit(0)
    /\ UNCHANGED <<args, isatty, backend, client, sent, data, stderr>>

\* formatter.py 185: data is not a dict, data.get raises AttributeError
print_results_AttributeError ==
    /\ pc = "print_results"
    /\ ~args.json_output
    /\ data.v.type # "dict"
    /\ printCalls' = printCalls + 1
    /\ stderr' = Append(stderr, [kind |-> "Traceback",
                                 error |-> "AttributeError"])
    /\ Exit(1)
    /\ UNCHANGED <<args, isatty, backend, client, sent, data, stdout, pager>>

\* formatter.py 185-191
print_results_no_hits ==
    /\ pc = "print_results"
    /\ ~args.json_output
    /\ data.v.type = "dict"
    /\ GetHits(data.v) = <<>>
    /\ printCalls' = printCalls + 1
    /\ stdout' = Append(stdout, [kind |-> "No results found."])
    /\ Exit(0)
    /\ UNCHANGED <<args, isatty, backend, client, sent, data, stderr, pager>>

\* formatter.py 193-212
print_results_table ==
    /\ pc = "print_results"
    /\ ~args.json_output
    /\ data.v.type = "dict"
    /\ GetHits(data.v) # <<>>
    /\ printCalls' = printCalls + 1
    /\ LET hits == DisplayHits(data.v, args.reverse)
           out  == render_results(hits, args.search_type, TotalValue(data.v),
                                  args.details, args.compact)
       IN  IF ShouldUsePager(args.pager, hits) /\ isatty
           THEN /\ pager' = Append(pager, out)
                /\ stdout' = stdout
           ELSE /\ stdout' = stdout \o out
                /\ pager' = pager
    /\ Exit(0)
    /\ UNCHANGED <<args, isatty, backend, client, sent, data, stderr>>

Next ==
    \/ main_usage_error
    \/ main_search
    \/ search_return
    \/ search_RequestException
    \/ search_JSONDecodeError
    \/ print_results_json
    \/ print_results_AttributeError
    \/ print_results_no_hits
    \/ print_results_table

InitMain == InitWith(ArgsMain, FewBackends)

InitQuery == InitWith(ArgsQuery, FewBackends)

InitRender == InitWith(ArgsRender, AllBackends)

\* the invocations that differ in the usage and pagination arguments
Spec == InitMain /\ [][Next]_vars

\* the invocations that differ in what the request is built from
SpecQuery == InitQuery /\ [][Next]_vars

\* the invocations that differ in the response and the rendering options
SpecRender == InitRender /\ [][Next]_vars

\* ------------------------------------------------------------------------
\* Properties
\* ------------------------------------------------------------------------
Present(o) == o.some /\ o.v # ""

NoCriteria(a) ==
    a.query = "" /\ ~Present(a.name) /\ ~Present(a.program)
        /\ ~Present(a.version)

UsageInvalid(a) ==
    NoCriteria(a) \/ a.size <= 0 \/ a.from_ < 0 \/ a.from_ + a.size > 10000

UsageErrors(log) == SelectSeq(log, LAMBDA e : e.kind = "usage")

\* C1: an invocation whose arguments fail a usage validation (no query,
\* name, program or version; size <= 0; offset < 0; offset + size > 10000)
\* never builds the client and never sends a request, never reaches
\* print_results, and when it has ended it has ended with one usage error on
\* the error stream and a non-zero exit status.
C1_UsageErrorBeforeNetwork ==
    UsageInvalid(args) =>
        /\ pc \in {"main", "exit"}
        /\ client = None
        /\ sent = <<>>
        /\ printCalls = 0
        /\ pc = "exit" =>
             /\ exitCode # 0
             /\ Len(stderr) = 1
             /\ Len(UsageErrors(stderr)) = 1
             /\ stdout = <<>>

\* an invocation with offset + size > 10000 and nothing else wrong has ended
C1_Witness ==
    /\ ~NoCriteria(args)
    /\ args.size > 0
    /\ args.from_ >= 0
    /\ args.from_ + args.size > 10000
    /\ pc = "exit"
    /\ exitCode = 2

\* C2: an invocation that passes validation sends exactly one request, a
\* POST: one request is out from the moment the client posts, and the
\* process ends, whatever the outcome, with that one request and no other.
C2_ExactlyOnePost ==
    /\ Len(sent) <= 1
    /\ \A i \in 1..Len(sent) : sent[i].method = "POST"
    /\ pc \in {"post", "print_results"} => Len(sent) = 1
    /\ (pc = "exit" /\ ~UsageInvalid(args)) => Len(sent) = 1

\* a failed call has ended the process and one request was sent
C2_Witness ==
    /\ pc = "exit"
    /\ ~UsageInvalid(args)
    /\ data = None
    /\ exitCode = 1
    /\ Len(sent) = 1

\* C3: when the call fails (the request was sent and search did not return)
\* the process ends with a report on the error stream and a non-zero exit
\* status and print_results is never run; the exit status is 0 only when
\* search returned and print_results ran to completion, and it is 0 when
\* the response has no hits.
C3_FailureIsFatal ==
    /\ (pc = "exit" /\ sent # <<>> /\ data = None) =>
          /\ exitCode # 0
          /\ stderr # <<>>
          /\ printCalls = 0
          /\ stdout = <<>>
          /\ pager = <<>>
    /\ (pc = "exit" /\ exitCode = 0) =>
          /\ data # None
          /\ printCalls = 1
          /\ stderr = <<>>
          /\ Len(stdout) + Len(pager) > 0
    /\ (pc = "exit" /\ data # None /\ data.v.type = "dict"
          /\ GetHits(data.v) = <<>>) => exitCode = 0

\* the call failed and the process has ended
C3_Witness ==
    /\ pc = "exit"
    /\ sent # <<>>
    /\ data = None
    /\ exitCode = 1
    /\ stderr # <<>>

\* the request of the invocation, once sent
Posted == sent # <<>>

Must == sent[1].json.query.bool.must

DisMaxOf(clauses) == SelectSeq(clauses, LAMBDA c : "dis_max" \in DOMAIN c)

WildcardsOf(clauses) == SelectSeq(clauses, LAMBDA c : "wildcard" \in DOMAIN c)

TermsOf(clauses) == SelectSeq(clauses, LAMBDA c : "term" \in DOMAIN c)

\* C4: with non-empty free text the query has one dis_max clause, holding
\* one cross-field multi-match whose field list is the package-oriented
\* weighted list for searchType packages and flakes, and the two-field list
\* for searchType options only.
C4_PackageFieldsForPackagesAndFlakes ==
    (Posted /\ args.query # "") =>
        /\ Len(DisMaxOf(Must)) = 1
        /\ LET queries == DisMaxOf(Must)[1].dis_max.queries
           IN  /\ Len(queries) = 1
               /\ queries[1].multi_match.type = "cross_fields"
               /\ queries[1].multi_match.query = args.query
               /\ queries[1].multi_match.fields =
                     IF args.search_type \in {"packages", "flakes"}
                     THEN PACKAGE_FIELDS
                     ELSE << "option_name^2", "option_description" >>

\* C5: the body of the request carries the sort [{_score: desc},
\* {package_attr_name: desc}] for searchType packages and flakes, and
\* [{_score: desc}] for searchType options only.
C5_SortByScoreThenAttrName ==
    Posted =>
        sent[1].json.sort =
            IF args.search_type \in {"packages", "flakes"}
            THEN << [_score |-> "desc"], [package_attr_name |-> "desc"] >>
            ELSE << [_score |-> "desc"] >>

NamingScheme(search_type, channel) ==
    CASE search_type = "flakes"   -> "latest-44-nixos-flakes"
      [] search_type = "options"  -> "latest-44-nixos-" \o channel \o "-options"
      [] search_type = "packages" -> "latest-44-nixos-" \o channel

\* C6: the request goes to <base URL>/backend/<index>/_search, where the
\* index is latest-44-nixos-flakes for flakes whatever the channel,
\* latest-44-nixos-<channel>-options for options and
\* latest-44-nixos-<channel> for packages, channel unstable included: a
\* function of searchType and channel alone.  The base URL is the one the
\* client holds, which is the configured one when that has no trailing "/".
C6_IndexNamingScheme ==
    Posted =>
        /\ sent[1].endpoint =
              client.v.base_url \o "/backend/"
                 \o NamingScheme(args.search_type, args.channel)
                 \o "/_search"
        /\ Len(args.base_url) = 1 => client.v.base_url = args.base_url[1]

\* a flakes search on a dated channel has been sent
C6_Witness ==
    /\ Posted
    /\ args.search_type = "flakes"
    /\ args.channel = "24.05"
    /\ sent[1].endpoint =
          "https://search.nixos.org/backend/latest-44-nixos-flakes/_search"

ExpectedWildcards(a, given(_)) ==
    (IF given(a.name)
     THEN << [wildcard |-> [package_attr_name |-> "*" \o a.name.v \o "*"]] >>
     ELSE <<>>)
    \o (IF given(a.program)
        THEN << [wildcard |-> [package_programs |-> "*" \o a.program.v \o "*"]] >>
        ELSE <<>>)
    \o (IF given(a.version)
        THEN << [wildcard |-> [package_pversion |-> "*" \o a.version.v \o "*"]] >>
        ELSE <<>>)

Provided(o) == o.some

\* the clauses sit under one "must" conjunction: free text first, then the
\* wildcards, then the platform term, and nothing else
UnderOneMust ==
    /\ DOMAIN sent[1].json.query = {"bool"}
    /\ DOMAIN sent[1].json.query.bool = {"must"}
    /\ Must = DisMaxOf(Must) \o WildcardsOf(Must) \o TermsOf(Must)
    /\ Len(DisMaxOf(Must)) = (IF args.query # "" THEN 1 ELSE 0)
    /\ TermsOf(Must) =
          (IF Present(args.platform)
           THEN << [term |-> [package_platforms |-> args.platform.v]] >>
           ELSE <<>>)

\* C10 as stated: one wildcard clause for every filter that was given (also
\* an empty one) and none for a filter that was not, each value wrapped as
\* *value*, all clauses under one "must".
C10_WildcardPerProvidedFilter ==
    Posted =>
        /\ WildcardsOf(Must) = ExpectedWildcards(args, Provided)
        /\ UnderOneMust

\* C10 amended: one wildcard clause for every filter given with a non-empty
\* value and none for a filter that is absent or empty; name maps to
\* package_attr_name, program to package_programs, version to
\* package_pversion, each value wrapped literally as *value*; all clauses
\* sit under one "must".
C10_WildcardPerNonEmptyFilter ==
    Posted =>
        /\ WildcardsOf(Must) = ExpectedWildcards(args, Present)
        /\ UnderOneMust

\* --name "emacsPackages.*" together with a program and a version filter
C10_Witness ==
    /\ Posted
    /\ args.name = Some("emacsPackages.*")
    /\ args.program # None
    /\ args.version # None
    /\ Len(WildcardsOf(Must)) = 3
    /\ WildcardsOf(Must)[1] =
          [wildcard |-> [package_attr_name |-> "*emacsPackages.**"]]

\* print_results has run to its end on a response that is a JSON object
Rendered == pc = "exit" /\ printCalls = 1 /\ exitCode = 0

ResponseHits == IF backend.hits.some THEN backend.hits.v.hits ELSE <<>>

TableMode ==
    /\ Rendered
    /\ ~args.json_output
    /\ backend.type = "dict"
    /\ ResponseHits # <<>>

\* what was displayed, on the pager or directly
Displayed == IF pager # <<>> THEN pager[1] ELSE stdout

TablesOf(out) == SelectSeq(out, LAMBDA e : e.kind = "table")

\* C7: in table mode with at least one hit the pager is invoked if and only
\* if the output stream is a terminal and either the pager is forced on, or
\* it is left to auto and there are more than 10 hits; so never on a stream
\* that is not a terminal, and never when the pager is forced off.  What is
\* not paged is written directly.
C7_PagerOnlyOnTerminal ==
    TableMode =>
        /\ Len(pager) <= 1
        /\ pager # <<>> <=>
              (isatty /\ (\/ args.pager = Some(TRUE)
                          \/ (args.pager = None /\ Len(ResponseHits) > 10)))
        /\ pager = <<>> <=> stdout # <<>>

\* more than 10 hits, no pager flag, output not a terminal: no pager
C7_Witness ==
    /\ TableMode
    /\ ~isatty
    /\ args.pager = None
    /\ Len(ResponseHits) > 10
    /\ pager = <<>>
    /\ stdout # <<>>

\* C8: with jsonOutput set, print_results emits the whole response as JSON
\* indented by 2 and nothing else (no header, no table, no no-results
\* notice), for every response and every setting of reverse, details and
\* compact, and ends with status 0; the output goes to the pager if and only
\* if the pager is forced on, whatever the stream and the number of hits.
C8_JsonOutputOnly ==
    (pc = "exit" /\ printCalls = 1 /\ args.json_output) =>
        LET doc == [kind |-> "json", indent |-> 2, doc |-> backend]
        IN  /\ exitCode = 0
            /\ stderr = <<>>
            /\ IF args.pager = Some(TRUE)
               THEN pager = << << doc >> >> /\ stdout = <<>>
               ELSE stdout = << doc >> /\ pager = <<>>

\* JSON output of more than 10 hits on a terminal, pager left to auto
C8_Witness ==
    /\ pc = "exit"
    /\ printCalls = 1
    /\ args.json_output
    /\ args.pager = None
    /\ isatty
    /\ backend.type = "dict"
    /\ Len(ResponseHits) > 10
    /\ args.reverse
    /\ Len(stdout) = 1

ResponseTotal ==
    IF backend.hits.v.total.some THEN backend.hits.v.total.v.value ELSE 0

\* C9: with reverse set and at least one hit, the i-th result displayed is
\* the (n+1-i)-th hit of the response, numbered i; there are n results, one
\* per hit; the header shows the total of the response and the number of
\* hits, with reverse as without it; and the response itself is left as it
\* was received.
C9_ReverseDisplayOrder ==
    TableMode =>
        LET n == Len(ResponseHits)
            tables == TablesOf(Displayed)
        IN  /\ Displayed[1] =
                  [kind |-> "header", total |-> ResponseTotal, showing |-> n]
            /\ Len(tables) = n
            /\ data = Some(backend)
            /\ args.reverse =>
                  \A i \in 1..n :
                     /\ tables[i].source = ResponseHits[n + 1 - i]._source
                     /\ tables[i].index = i

\* three or more hits displayed in reverse
C9_Witness ==
    /\ TableMode
    /\ args.reverse
    /\ Len(ResponseHits) >= 3
    /\ TablesOf(Displayed)[1].source = Len(ResponseHits)
    /\ TablesOf(Displayed)[Len(ResponseHits)].source = 1

MatchAllsOf(clauses) == SelectSeq(clauses, LAMBDA c : "match_all" \in DOMAIN c)

\* C11: no request sent by the CLI carries match_all: the "must" list of
\* every request sent has at least one free-text dis_max clause or wildcard
\* clause.  An invocation whose query, name, program and version are all
\* absent or empty is rejected before anything is sent, with or without a
\* platform filter, although _build_query, called with those arguments and
\* no platform, would answer with the match_all default.
C11_NoMatchAllFromCli ==
    /\ Posted =>
          /\ MatchAllsOf(Must) = <<>>
          /\ Len(DisMaxOf(Must)) + Len(WildcardsOf(Must)) >= 1
    /\ NoCriteria(args) =>
          /\ sent = <<>>
          /\ pc \in {"main", "exit"}
          /\ pc = "exit" => exitCode = 2
          /\ build_query(args.query, args.name, args.program, args.version,
                         None, args.search_type).bool.must
                = << [match_all |-> <<>>] >>

\* a request without free text, with a platform filter and one wildcard
C11_Witness ==
    /\ Posted
    /\ args.query = ""
    /\ Present(args.platform)
    /\ Len(WildcardsOf(Must)) = 1
    /\ Len(Must) = 2

====
